---- MODULE Spec2Model ----
(***************************************************************************)
(* Pixel-by-pixel linear rate estimation (pyrate/linrate.py).              *)
(*                                                                         *)
(* linear_rate builds the observation block and the MST mask, solves every *)
(* pixel with linear_rate_by_pixel (row tasks under parmap, or a nested    *)
(* loop), masks the pixels whose error exceeds maxsig and returns the      *)
(* rate, error and samples rasters.                                        *)
(*                                                                         *)
(* Numbers.  A float is <<>> (NaN) or an exact rational <<n, d>>, d > 0,   *)
(* in lowest terms.  A standard error is the square root of a rational     *)
(* that is rarely a square, so the error rasters hold the radicand: the    *)
(* value <<n, d>> in err / error stands for sqrt(n/d), and a comparison    *)
(* with maxsig compares the radicand with maxsig squared.                  *)
(*                                                                         *)
(* Inputs.  The temporal VCM is drawn from diagonal matrices and is held   *)
(* as the sequence of its diagonal; every step of the lscov routine is     *)
(* computed on that diagonal as the code computes it on the matrix.        *)
(***************************************************************************)
EXTENDS Integers, Sequences, FiniteSets, TLC

(***************************************************************************)
(* Bounds of the model.                                                    *)
(***************************************************************************)
NObs ==
    3
Rows ==
    2
Cols ==
    2

ObsIdx == 1..NObs
Pixels == (1..Rows) \X (1..Cols)

(***************************************************************************)
(* Exact rational arithmetic standing for the float arithmetic of numpy.   *)
(***************************************************************************)
Abs(n) == IF n < 0 THEN -n ELSE n

RECURSIVE GCD(_, _)
GCD(a, b) == IF b = 0 THEN a ELSE GCD(b, a % b)

Rat(n, d) ==
    LET g == GCD(Abs(n), Abs(d))
        s == IF d < 0 THEN -1 ELSE 1
    IN  <<(s * n) \div g, (s * d) \div g>>

NaN == <<>>
isnan(x) == x = <<>>

RAdd(x, y) == Rat(x[1] * y[2] + y[1] * x[2], x[2] * y[2])
RSub(x, y) == Rat(x[1] * y[2] - y[1] * x[2], x[2] * y[2])
RMul(x, y) == Rat(x[1] * y[1], x[2] * y[2])
RDiv(x, y) == Rat(x[1] * y[2], x[2] * y[1])
RAbs(x) == <<Abs(x[1]), x[2]>>
RLt(x, y) == x[1] * y[2] < y[1] * x[2]

RECURSIVE Sum(_)
Sum(s) == IF s = <<>> THEN <<0, 1>> ELSE RAdd(Head(s), Sum(Tail(s)))

\* integer square root of a perfect square
ISqrt(n) == CHOOSE k \in 0..n : k * k = n

(***************************************************************************)
(* Input families.                                                         *)
(***************************************************************************)
\* x.time_span of interferogram k
TimeSpan(k) == <<k, 1>>

\* phase_data of one pixel through the stack: exactly linear (rate 0.1),
\* linear with an outlier 5.0 in the second interferogram, linear with a
\* missing (NaN) first interferogram, linear with a perturbed last value
Kinds == {"lin", "out", "gap", "noisy"}

PhaseOf(kind) ==
    [k \in ObsIdx |->
        CASE kind = "lin"   -> <<k, 10>>
          [] kind = "out"   -> IF k = 2 THEN <<5, 1>> ELSE <<k, 10>>
          [] kind = "gap"   -> IF k = 1 THEN NaN ELSE <<k, 10>>
          [] kind = "noisy" -> IF k = NObs THEN <<k + 1, 10>> ELSE <<k, 10>>]

\* diagonal of the temporal VCM: identity, unequal variances, a zero
\* variance (not positive definite), one entry too few, one entry too many
VcmSet ==
    { [k \in 1..NObs |-> 1],
      [k \in 1..NObs |-> IF k = 2 THEN 4 ELSE 1],
      [k \in 1..NObs |-> IF k = NObs THEN 0 ELSE 1],
      [k \in 1..(NObs - 1) |-> 1],
      [k \in 1..(NObs + 1) |-> 1] }

PthrSet == {2, 3}
NsigSet == {<<2, 1>>}
NsigSetPixel == {<<1, 50>>, <<2, 1>>, <<3, 1>>}
MaxsigSet == {<<3, 10>>, <<1, 1>>}

\* a supplied MST grid: the first m interferograms at one pixel, all of
\* them at the others
MaskSizes == {0, 2, 3}
Prefix(m) == [k \in ObsIdx |-> k <= m]
MstGrid(sp, m) == [p \in Pixels |-> IF p = sp THEN Prefix(m) ELSE Prefix(NObs)]

VARIABLES
    phase,      \* [pixel -> [obs -> float]]: x.phase_data of every ifg
    vcm,        \* diagonal of the temporal VCM
    pthr, nsig, maxsig,
    mstArg,     \* the mst argument: [none |-> TRUE] or [none |-> FALSE, grid |-> ..]
    parallel,
    pc,         \* position in linear_rate
    obs,        \* 3D block of observations
    mst,        \* the MST grid in use
    rate, error, samples,   \* rasters
    res,        \* parmap results, one per row
    i, j,       \* loop indices of the serial branch
    solved,     \* pixels linear_rate_by_pixel has been called on
    outcome,    \* "running", "returned" or the exception raised
    first,      \* what a previous call with the other mode ended in
    px,         \* pixel of a stand-alone linear_rate_by_pixel call
    px_pc,      \* position in linear_rate_by_pixel
    ind,        \* active indices
    iters,      \* iterations of the while loop entered
    la,         \* linear-algebra routines invoked
    dropped,    \* indices deleted, in order
    ret         \* value returned by linear_rate_by_pixel

inputs == <<phase, vcm, pthr, nsig, maxsig, mstArg>>
grid == <<parallel, pc, obs, mst, rate, error, samples, res, i, j, solved, outcome, first>>
pixel == <<px, px_pc, ind, iters, la, dropped, ret>>
vars == <<inputs, grid, pixel>>

(***************************************************************************)
(* linear_rate_by_pixel: the body of one pass of the while loop.           *)
(***************************************************************************)
\* np.nonzero(m)[0]: the indices k with m[k], ascending
RECURSIVE NonzeroFrom(_, _)
NonzeroFrom(m, k) ==
    IF k > NObs THEN <<>>
    ELSE IF m[k] THEN <<k>> \o NonzeroFrom(m, k + 1)
    ELSE NonzeroFrom(m, k + 1)

nonzero(m) == NonzeroFrom(m, 1)

\* variant of LoopCond: the threshold taken one too low
LoopCondSlack(ix) == Len(ix) >= pthr - 1

\* while len(ind) >= pthr
LoopCond(ix) == Len(ix) >= pthr

\* ifgv = obs[ind, row, col]
ifgv(p, ix) == [k \in 1..Len(ix) |-> obs[p][ix[k]]]

\* B = span[:, ind]
B(ix) == [k \in 1..Len(ix) |-> TimeSpan(ix[k])]

\* vcm[ind, np.vstack(ind)] raises IndexError on an index outside vcm
InVcm(ix) == \A k \in 1..Len(ix) : ix[k] <= Len(vcm)

vcm_temp(ix) == [k \in 1..Len(ix) |-> vcm[ix[k]]]

\* cholesky raises LinAlgError unless the matrix is positive definite
PosDef(V) == \A k \in 1..Len(V) : V[k] > 0

cholesky(V) == [k \in 1..Len(V) |-> <<ISqrt(V[k]), 1>>]

\* solve(T, y) with T triangular (here diagonal)
solve(T, y) == [k \in 1..Len(y) |-> RDiv(y[k], T[k])]

Dot(x, y) == Sum([k \in 1..Len(x) |-> RMul(x[k], y[k])])

\* variant of lstsq: z is not divided by R (v = A.b)
lstsqNoR(A, b) == Dot(A, b)

\* Q, R, _ = qr(A); z = Q'.b; v = solve(R, z), for the one-column A:
\* R = |A|, Q = A / |A|, z = A.b / |A|, v = A.b / |A|^2
lstsq(A, b) == RDiv(Dot(A, b), Dot(A, A))

\* inv of a diagonal matrix
inv(V) == [k \in 1..Len(V) |-> RDiv(<<1, 1>>, <<V[k], 1>>)]

\* err = sqrt(diag(inv(B . inv(vcm_temp) . B'))): the radicand
errOf(V, Bv) ==
    RDiv(<<1, 1>>, Sum([k \in 1..Len(V) |-> RMul(Bv[k], RMul(inv(V)[k], Bv[k]))]))

\* r = (B * v) - ifgv
resid(Bv, v, y) == [k \in 1..Len(y) |-> RSub(RMul(Bv[k], v), y[k])]

\* w = cholesky(inv(vcm_temp)); wr = abs(dot(w, r'))
wrOf(V, r) ==
    [k \in 1..Len(r) |-> RAbs(RMul(RDiv(<<1, 1>>, cholesky(V)[k]), r[k]))]

\* wr.max()
max(wr) == wr[CHOOSE k \in 1..Len(wr) : \A m \in 1..Len(wr) : ~RLt(wr[k], wr[m])]

\* variant of argmax: the position of the minimum (wr.argmin())
argmin(wr) ==
    CHOOSE k \in 1..Len(wr) :
        /\ \A m \in 1..Len(wr) : ~RLt(wr[m], wr[k])
        /\ \A m \in 1..(k - 1) : RLt(wr[k], wr[m])

\* wr.argmax(): the first position of the maximum
argmax(wr) ==
    CHOOSE k \in 1..Len(wr) :
        /\ \A m \in 1..Len(wr) : ~RLt(wr[k], wr[m])
        /\ \A m \in 1..(k - 1) : RLt(wr[m], wr[k])

\* variant of delete: the slice after k starts one too far
deleteWide(ix, k) == SubSeq(ix, 1, k - 1) \o SubSeq(ix, k + 2, Len(ix))

\* np.delete(ind, k)
delete(ix, k) == SubSeq(ix, 1, k - 1) \o SubSeq(ix, k + 1, Len(ix))

\* if max_val > nsig
Rejects(mx) == RLt(nsig, mx)

\* weighted residuals of the fit over the active indices ix at pixel p
WR(p, ix) ==
    LET V == vcm_temp(ix)
        T == cholesky(V)
        A == solve(T, B(ix))
        b == solve(T, ifgv(p, ix))
        v == lstsq(A, b)
    IN  wrOf(V, resid(B(ix), v, ifgv(p, ix)))

\* one pass of the loop body over the active indices ix at pixel p
Iterate(p, ix) ==
    IF ~InVcm(ix) THEN [kind |-> "raise", exc |-> "IndexError", la |-> 0]
    ELSE IF ~PosDef(vcm_temp(ix)) THEN [kind |-> "raise", exc |-> "LinAlgError", la |-> 1]
    ELSE
        LET V == vcm_temp(ix)
            T == cholesky(V)
            A == solve(T, B(ix))
            b == solve(T, ifgv(p, ix))
            v == lstsq(A, b)
            err == errOf(V, B(ix))
            r == resid(B(ix), v, ifgv(p, ix))
            wr == wrOf(V, r)
        IN  IF Rejects(max(wr))
            THEN [kind |-> "reject", at |-> argmax(wr), ind |-> delete(ix, argmax(wr))]
            ELSE [kind |-> "accept", v |-> v, err |-> err, n |-> Len(ix)]

\* the while loop from the active indices ix to its return or exception
RECURSIVE Loop(_, _)
Loop(p, ix) ==
    IF ~LoopCond(ix) THEN [kind |-> "nan"]
    ELSE LET s == Iterate(p, ix)
         IN  IF s.kind = "reject" THEN Loop(p, s.ind) ELSE s

linear_rate_by_pixel(p) == Loop(p, nonzero(mst[p]))

\* the tuple a call returns: (v[0], err[0], ifgv.shape[0]) or three NaNs
Triple(r) ==
    IF r.kind = "accept" THEN <<r.v, r.err, <<r.n, 1>>>> ELSE <<NaN, NaN, NaN>>

(***************************************************************************)
(* linear_rate_by_rows and the pieces of linear_rate.                      *)
(***************************************************************************)
\* np.empty: allocated, not initialised
Empty == <<0, 0>>

\* variant of linear_rate_by_rows: an exception of a pixel is caught and the
\* pixel takes three NaNs
linear_rate_by_rows_caught(row) ==
    [state |-> "ok", upto |-> Cols, exc |-> "none",
     row |-> [c \in 1..Cols |-> Triple(linear_rate_by_pixel(<<row, c>>))]]

\* the row task: the pixels of the row in column order; an exception of a
\* pixel ends the task
linear_rate_by_rows(row) ==
    LET cell == [c \in 1..Cols |-> linear_rate_by_pixel(<<row, c>>)]
        bad == {c \in 1..Cols : cell[c].kind = "raise"}
    IN  IF bad = {}
        THEN [state |-> "ok", upto |-> Cols, exc |-> "none",
              row |-> [c \in 1..Cols |-> Triple(cell[c])]]
        ELSE LET c0 == CHOOSE c \in bad : \A d \in bad : c <= d
             IN  [state |-> "raised", upto |-> c0, exc |-> cell[c0].exc, row |-> <<>>]

\* obs = array([np.where(isnan(x.phase_data), 0, x.phase_data) for x in ifgs])
MakeObs == [p \in Pixels |-> [k \in ObsIdx |->
                IF isnan(phase[p][k]) THEN <<0, 1>> ELSE phase[p][k]]]

\* mst = ~isnan(obs), or mst[isnan(obs)] = 0 on the grid passed in
MakeMst(o) ==
    IF mstArg.none
    THEN [p \in Pixels |-> [k \in ObsIdx |-> ~isnan(o[p][k])]]
    ELSE [p \in Pixels |-> [k \in ObsIdx |->
                IF isnan(o[p][k]) THEN FALSE ELSE mstArg.grid[p][k]]]

\* error > maxsig, on the radicand of error
ErrGt(e, m) == ~isnan(e) /\ RLt(RMul(m, m), e)

\* a[a_mask] = nan
MaskWith(a, e) == [p \in Pixels |-> IF ErrGt(e[p], maxsig) THEN NaN ELSE a[p]]

Pending == [r \in 1..Rows |-> [state |-> "pending", upto |-> 0, exc |-> "none", row |-> <<>>]]

NoFirst == [none |-> TRUE]

\* what a call of linear_rate ends in, as its caller sees it
Result ==
    IF outcome = "returned"
    THEN [none |-> FALSE, ended |-> "returned", rasters |-> <<rate, error, samples>>]
    ELSE [none |-> FALSE, ended |-> "raised", rasters |-> <<>>]

\* the arguments of a call: a background of linear pixels and one pixel of
\* some kind in the first or the last cell
InputsFrom(nsigs, maxsigs) ==
    /\ \E sp \in Kinds, at \in {<<1, 1>>, <<Rows, Cols>>} :
          /\ phase = [p \in Pixels |-> IF p = at THEN PhaseOf(sp) ELSE PhaseOf("lin")]
          /\ mstArg \in {[none |-> TRUE]}
                \cup {[none |-> FALSE, grid |-> MstGrid(at, m)] : m \in MaskSizes}
    /\ vcm \in VcmSet
    /\ pthr \in PthrSet
    /\ nsig \in nsigs
    /\ maxsig \in maxsigs

PixelIdle ==
    /\ px = <<1, 1>>
    /\ px_pc = "idle"
    /\ ind = <<>>
    /\ iters = 0
    /\ la = 0
    /\ dropped = <<>>
    /\ ret = <<>>

Init ==
    /\ InputsFrom(NsigSet, MaxsigSet)
    /\ parallel \in BOOLEAN
    /\ pc = "start"
    /\ obs = <<>>
    /\ mst = <<>>
    /\ rate = <<>>
    /\ error = <<>>
    /\ samples = <<>>
    /\ res = Pending
    /\ i = 1
    /\ j = 1
    /\ solved = {}
    /\ outcome = "running"
    /\ first = NoFirst
    /\ PixelIdle

\* lines 51-66: the observation block, the mask, the empty rasters
Prepare ==
    /\ pc = "start"
    /\ obs' = MakeObs
    /\ mst' = MakeMst(obs')
    /\ mstArg' = IF mstArg.none THEN mstArg ELSE [none |-> FALSE, grid |-> mst']
    /\ rate' = [p \in Pixels |-> Empty]
    /\ error' = [p \in Pixels |-> Empty]
    /\ samples' = [p \in Pixels |-> Empty]
    /\ pc' = IF parallel THEN "par" ELSE "seq"
    /\ UNCHANGED <<phase, vcm, pthr, nsig, maxsig>>
    /\ UNCHANGED <<parallel, res, i, j, solved, outcome, first>>
    /\ UNCHANGED pixel

\* lines 78-81, a pixel whose call raises
SeqPixelRaise ==
    /\ pc = "seq"
    /\ LET r == linear_rate_by_pixel(<<i, j>>)
       IN  /\ r.kind = "raise"
           /\ outcome' = r.exc
    /\ solved' = solved \cup {<<i, j>>}
    /\ pc' = "done"
    /\ UNCHANGED inputs
    /\ UNCHANGED <<parallel, obs, mst, rate, error, samples, res, i, j, first>>
    /\ UNCHANGED pixel

\* lines 78-81, a pixel whose call returns NaNs: rate and error take them,
\* the int16 samples raster cannot (ValueError)
SeqPixelNaN ==
    /\ pc = "seq"
    /\ LET r == linear_rate_by_pixel(<<i, j>>)
           t == Triple(r)
       IN  /\ r.kind # "raise"
           /\ isnan(t[3])
           /\ rate' = [rate EXCEPT ![<<i, j>>] = t[1]]
           /\ error' = [error EXCEPT ![<<i, j>>] = t[2]]
    /\ solved' = solved \cup {<<i, j>>}
    /\ outcome' = "ValueError"
    /\ pc' = "done"
    /\ UNCHANGED inputs
    /\ UNCHANGED <<parallel, obs, mst, samples, res, i, j, first>>
    /\ UNCHANGED pixel

\* lines 78-81, a pixel whose call returns an estimate
SeqPixel ==
    /\ pc = "seq"
    /\ LET r == linear_rate_by_pixel(<<i, j>>)
           t == Triple(r)
       IN  /\ r.kind # "raise"
           /\ ~isnan(t[3])
           /\ rate' = [rate EXCEPT ![<<i, j>>] = t[1]]
           /\ error' = [error EXCEPT ![<<i, j>>] = t[2]]
           /\ samples' = [samples EXCEPT ![<<i, j>>] = t[3]]
    /\ solved' = solved \cup {<<i, j>>}
    /\ j' = IF j < Cols THEN j + 1 ELSE 1
    /\ i' = IF j < Cols THEN i ELSE i + 1
    /\ pc' = IF j = Cols /\ i = Rows THEN "mask" ELSE "seq"
    /\ UNCHANGED inputs
    /\ UNCHANGED <<parallel, obs, mst, res, outcome, first>>
    /\ UNCHANGED pixel

\* lines 71-72: a worker runs the task of one row
ParRow(r) ==
    /\ pc = "par"
    /\ res[r].state = "pending"
    /\ res' = [res EXCEPT ![r] = linear_rate_by_rows(r)]
    /\ solved' = solved \cup {<<r, c>> : c \in 1..res'[r].upto}
    /\ UNCHANGED inputs
    /\ UNCHANGED <<parallel, pc, obs, mst, rate, error, samples, i, j, outcome, first>>
    /\ UNCHANGED pixel

\* lines 71-72: parmap.map re-raises the exception of a task
ParRaise ==
    /\ pc = "par"
    /\ \E r \in 1..Rows :
          /\ res[r].state = "raised"
          /\ outcome' = res[r].exc
    /\ pc' = "done"
    /\ UNCHANGED inputs
    /\ UNCHANGED <<parallel, obs, mst, rate, error, samples, res, i, j, solved, first>>
    /\ UNCHANGED pixel

\* lines 73-76: the rows in row order, sliced into the three rasters
ParCollect ==
    /\ pc = "par"
    /\ \A r \in 1..Rows : res[r].state = "ok"
    /\ rate' = [p \in Pixels |-> res[p[1]].row[p[2]][1]]
    /\ error' = [p \in Pixels |-> res[p[1]].row[p[2]][2]]
    /\ samples' = [p \in Pixels |-> res[p[1]].row[p[2]][3]]
    /\ pc' = "mask"
    /\ UNCHANGED inputs
    /\ UNCHANGED <<parallel, obs, mst, res, i, j, solved, outcome, first>>
    /\ UNCHANGED pixel

\* lines 84-86 on the float rasters of the parallel branch; the mask of
\* line 86 is taken from the error raster line 85 has just overwritten
MaskFloat ==
    /\ pc = "mask"
    /\ parallel
    /\ rate' = MaskWith(rate, error)
    /\ error' = MaskWith(error, error)
    /\ samples' = MaskWith(samples, error')
    /\ pc' = "ret"
    /\ UNCHANGED inputs
    /\ UNCHANGED <<parallel, obs, mst, res, i, j, solved, outcome, first>>
    /\ UNCHANGED pixel

\* lines 84-86 of the serial branch: line 86 stores nan into the int16
\* samples raster; numpy converts the value to int16 and raises ValueError
MaskInt16Raise ==
    /\ pc = "mask"
    /\ ~parallel
    /\ rate' = MaskWith(rate, error)
    /\ error' = MaskWith(error, error)
    /\ outcome' = "ValueError"
    /\ pc' = "done"
    /\ UNCHANGED inputs
    /\ UNCHANGED <<parallel, obs, mst, samples, res, i, j, solved, first>>
    /\ UNCHANGED pixel

\* lines 84-86 of the serial branch under a numpy that converts the value
\* only for the cells selected: the mask of line 86 selects none
MaskInt16Skip ==
    /\ pc = "mask"
    /\ ~parallel
    /\ rate' = MaskWith(rate, error)
    /\ error' = MaskWith(error, error)
    /\ \A p \in Pixels : ~ErrGt(error'[p], maxsig)
    /\ pc' = "ret"
    /\ UNCHANGED inputs
    /\ UNCHANGED <<parallel, obs, mst, samples, res, i, j, solved, outcome, first>>
    /\ UNCHANGED pixel

\* line 88
Return ==
    /\ pc = "ret"
    /\ outcome' = "returned"
    /\ pc' = "done"
    /\ UNCHANGED inputs
    /\ UNCHANGED <<parallel, obs, mst, rate, error, samples, res, i, j, solved, first>>
    /\ UNCHANGED pixel

\* the caller calls linear_rate again on the same arguments with the other
\* value of parallel
CallAgain ==
    /\ pc = "done"
    /\ first.none
    /\ first' = Result
    /\ parallel' = ~parallel
    /\ pc' = "start"
    /\ obs' = <<>>
    /\ mst' = <<>>
    /\ rate' = <<>>
    /\ error' = <<>>
    /\ samples' = <<>>
    /\ res' = Pending
    /\ i' = 1
    /\ j' = 1
    /\ solved' = {}
    /\ outcome' = "running"
    /\ UNCHANGED inputs
    /\ UNCHANGED pixel

Next ==
    \/ Prepare
    \/ SeqPixelRaise
    \/ SeqPixelNaN
    \/ SeqPixel
    \/ \E r \in 1..Rows : ParRow(r)
    \/ ParRaise
    \/ ParCollect
    \/ MaskFloat
    \/ MaskInt16Raise
    \/ MaskInt16Skip
    \/ Return
    \/ CallAgain

Spec == Init /\ [][Next]_vars

(***************************************************************************)
(* linear_rate_by_pixel called on its own, one pass of the loop per step.  *)
(***************************************************************************)
InitPixel ==
    /\ InputsFrom(NsigSetPixel, {<<1, 1>>})
    /\ parallel = FALSE
    /\ pc = "seq"
    /\ obs = MakeObs
    /\ mst = MakeMst(obs)
    /\ rate = [p \in Pixels |-> Empty]
    /\ error = [p \in Pixels |-> Empty]
    /\ samples = [p \in Pixels |-> Empty]
    /\ res = Pending
    /\ i = 1
    /\ j = 1
    /\ solved = {}
    /\ outcome = "running"
    /\ first = NoFirst
    /\ px \in Pixels
    /\ px_pc = "loop"
    /\ ind = nonzero(mst[px])
    /\ iters = 0
    /\ la = 0
    /\ dropped = <<>>
    /\ ret = <<>>

\* line 123 false: lines 173-174
PixelExhaust ==
    /\ px_pc = "loop"
    /\ ~LoopCond(ind)
    /\ ret' = <<NaN, NaN, NaN>>
    /\ px_pc' = "returned"
    /\ UNCHANGED <<px, ind, iters, la, dropped>>
    /\ UNCHANGED <<inputs, grid>>

\* lines 125-169: a pass that deletes the index of the largest ratio
PixelReject ==
    /\ px_pc = "loop"
    /\ LoopCond(ind)
    /\ LET s == Iterate(px, ind)
       IN  /\ s.kind = "reject"
           /\ ind' = s.ind
           /\ dropped' = Append(dropped, ind[s.at])
    /\ iters' = iters + 1
    /\ la' = la + 1
    /\ UNCHANGED <<px, px_pc, ret>>
    /\ UNCHANGED <<inputs, grid>>

\* lines 125-172: a pass that returns the estimate
PixelAccept ==
    /\ px_pc = "loop"
    /\ LoopCond(ind)
    /\ LET s == Iterate(px, ind)
       IN  /\ s.kind = "accept"
           /\ ret' = Triple(s)
    /\ iters' = iters + 1
    /\ la' = la + 1
    /\ px_pc' = "returned"
    /\ UNCHANGED <<px, ind, dropped>>
    /\ UNCHANGED <<inputs, grid>>

\* lines 125-137: a pass that raises (IndexError at 131, LinAlgError at 137)
PixelRaise ==
    /\ px_pc = "loop"
    /\ LoopCond(ind)
    /\ LET s == Iterate(px, ind)
       IN  /\ s.kind = "raise"
           /\ ret' = s.exc
           /\ la' = la + s.la
    /\ iters' = iters + 1
    /\ px_pc' = "raised"
    /\ UNCHANGED <<px, ind, dropped>>
    /\ UNCHANGED <<inputs, grid>>

NextPixel ==
    \/ PixelExhaust
    \/ PixelReject
    \/ PixelAccept
    \/ PixelRaise

SpecPixel == InitPixel /\ [][NextPixel]_vars

(***************************************************************************)
(* Properties.                                                             *)
(***************************************************************************)
NaN3 == <<NaN, NaN, NaN>>

\* what the Pixel Solver returns for every pixel, before any masking
Solved(p) == linear_rate_by_pixel(p)

\* the usable observations of the pixel px at the call
Usable == nonzero(mst[px])

\* ix without its k-th element
Without(ix, k) == [m \in 1..(Len(ix) - 1) |-> IF m < k THEN ix[m] ELSE ix[m + 1]]

Identity == vcm = [k \in 1..NObs |-> 1]

\* C1: in the rasters linear_rate returns, every pixel whose standard error
\* as the Pixel Solver returned it is greater than maxsig has NaN for rate,
\* error and sample count.
C1_MaskingLaw ==
    (pc = "done" /\ outcome = "returned") =>
        \A p \in Pixels :
            ErrGt(Triple(Solved(p))[2], maxsig) =>
                isnan(rate[p]) /\ isnan(error[p]) /\ isnan(samples[p])

\* C2: a call with parallel=True and a call with parallel=False on the same
\* arguments end the same way and return the same three rasters.
C2_ParallelEqualsSerial ==
    (pc = "done" /\ ~first.none) => Result = first

\* C3: once the mask is built or adjusted, every cell whose input phase is
\* NaN is marked unusable in it, with or without a mask passed in.
C3_MaskConsistent ==
    pc # "start" =>
        \A p \in Pixels : \A k \in ObsIdx : isnan(phase[p][k]) => ~mst[p][k]

\* C5: when no pixel meets a fatal error and some pixel runs out of
\* observations, linear_rate returns in either mode, that pixel is NaN in the
\* three rasters and the pixels solved within maxsig keep their values.
C5_InsufficientHandledLocally ==
    ( /\ pc = "done"
      /\ \A p \in Pixels : Solved(p).kind # "raise"
      /\ \E p \in Pixels : Solved(p).kind = "nan" ) =>
        /\ outcome = "returned"
        /\ \A p \in Pixels :
              /\ Solved(p).kind = "nan" =>
                    isnan(rate[p]) /\ isnan(error[p]) /\ isnan(samples[p])
              /\ (Solved(p).kind = "accept" /\ ~ErrGt(Solved(p).err, maxsig)) =>
                    <<rate[p], error[p], samples[p]>> = Triple(Solved(p))

\* a pixel linear_rate_by_pixel was called on whose Cholesky factorisation fails
CholeskyFailed(p) ==
    p \in solved /\ Solved(p).kind = "raise" /\ Solved(p).exc = "LinAlgError"

\* C6: once the Cholesky factorisation of a pixel has failed, the row task of
\* that pixel has failed, no raster is collected, masked or returned, and the
\* call ends in an exception, in both modes.
C6_CholeskyFailurePropagates ==
    \A p \in Pixels :
        CholeskyFailed(p) =>
            /\ parallel => res[p[1]].state = "raised"
            /\ pc \in {"par", "done"}
            /\ outcome # "returned"
            /\ pc = "done" => (outcome # "running" /\ Result.rasters = <<>>)

C6_Witness ==
    /\ pc = "done"
    /\ outcome = "LinAlgError"
    /\ \E p \in Pixels : CholeskyFailed(p)
    /\ ~first.none
    /\ first.ended = "raised"

\* C7: when the covariance matrix does not have one row per observation,
\* linear_rate fails and no pixel is solved before it fails.
C7_ShapeMismatchFailsFast ==
    Len(vcm) # NObs =>
        /\ solved = {}
        /\ pc = "done" => outcome \notin {"running", "returned"}

\* C4: a pixel with fewer usable observations than pthr returns three NaNs
\* without entering the loop and without any linear-algebra call.
C4_BelowThresholdNoSolve ==
    (px_pc # "idle" /\ Len(Usable) < pthr) =>
        /\ iters = 0
        /\ la = 0
        /\ px_pc \in {"loop", "returned"}
        /\ px_pc = "returned" => ret = NaN3

C4_Witness ==
    /\ px_pc = "returned"
    /\ Len(Usable) = 0
    /\ ret = NaN3

\* sum over the active indices ix of t_k * o_k and of t_k * t_k
RECURSIVE SumTO(_, _)
SumTO(p, ix) ==
    IF ix = <<>> THEN <<0, 1>>
    ELSE RAdd(RMul(TimeSpan(Head(ix)), obs[p][Head(ix)]), SumTO(p, Tail(ix)))

RECURSIVE SumTT(_)
SumTT(ix) ==
    IF ix = <<>> THEN <<0, 1>>
    ELSE RAdd(RMul(TimeSpan(Head(ix)), TimeSpan(Head(ix))), SumTT(Tail(ix)))

\* time spans 1, 2, 3 usable at px
FirstThree == Usable = <<1, 2, 3>>

\* C8: with the identity covariance, a pixel accepted without a rejection
\* has rate sum(t*o)/sum(t*t) and count the number of usable observations;
\* time spans 1, 2, 3 with observations 0.1, 0.2, 0.3, pthr 2 and nsig 3.0
\* give rate 0.1 and count 3 without a rejection.
C8_IdentityGivesOLS ==
    /\ (Identity /\ px_pc = "returned" /\ iters = 1 /\ dropped = <<>>) =>
          /\ ret[1] = RDiv(SumTO(px, Usable), SumTT(Usable))
          /\ ret[3] = <<Len(Usable), 1>>
    /\ ( /\ Identity /\ FirstThree /\ pthr = 2 /\ nsig = <<3, 1>>
         /\ \A k \in 1..3 : obs[px][k] = <<k, 10>>
         /\ px_pc = "returned" ) =>
          /\ ret[1] = <<1, 10>>
          /\ ret[3] = <<3, 1>>
          /\ dropped = <<>>

C8_Witness ==
    /\ Identity /\ FirstThree /\ pthr = 2 /\ nsig = <<3, 1>>
    /\ \A k \in 1..3 : obs[px][k] = <<k, 10>>
    /\ px_pc = "returned"
    /\ iters = 1
    /\ ret[1] = <<1, 10>>

\* the guards of the four steps of the loop: one of them can be taken
CanStep ==
    \/ ~LoopCond(ind)
    \/ LoopCond(ind) /\ Iterate(px, ind).kind \in {"reject", "accept", "raise"}

\* the usable indices of px that have not been deleted
Remaining == SelectSeq(Usable, LAMBDA k : \A d \in 1..Len(dropped) : dropped[d] # k)

\* C9: every pass of the loop that does not accept removes exactly one index
\* (as many indices are gone as passes were made, and the active set is the
\* usable indices less the deleted ones), the active set stays within the
\* usable indices of the pixel, a pixel with at least pthr usable
\* observations makes at most (usable - pthr + 1) passes, and the loop ends:
\* while it has not, a pass can run.
C9_LoopShrinksAndEnds ==
    px_pc # "idle" =>
        /\ \A k \in 1..Len(ind) : mst[px][ind[k]]
        /\ ind = Remaining
        /\ Len(ind) = Len(Usable) - Len(dropped)
        /\ px_pc = "loop" => iters = Len(dropped)
        /\ px_pc # "loop" => iters <= Len(dropped) + 1
        /\ Len(Usable) >= pthr => iters <= Len(Usable) - pthr + 1
        /\ px_pc = "loop" => CanStep

C9_Witness ==
    /\ px_pc = "returned"
    /\ Len(dropped) >= 2
    /\ iters = Len(Usable) - pthr + 1

\* the pass about to run completes (neither exception can occur)
PassRuns ==
    /\ px_pc = "loop"
    /\ LoopCond(ind)
    /\ InVcm(ind)
    /\ PosDef(vcm_temp(ind))

C10_Step ==
    PassRuns =>
        LET wr == WR(px, ind)
            IsMax(k) == \A m \in 1..Len(wr) : ~RLt(wr[k], wr[m])
        IN  \A k \in 1..Len(wr) :
                IsMax(k) =>
                    /\ RLt(nsig, wr[k]) =>
                          /\ px_pc' = "loop"
                          /\ \E d \in 1..Len(wr) :
                                /\ IsMax(d)
                                /\ ind' = Without(ind, d)
                                /\ dropped' = Append(dropped, ind[d])
                    /\ ~RLt(nsig, wr[k]) =>
                          /\ px_pc' = "returned"
                          /\ ret'[3] = <<Len(ind), 1>>

C10_Scenario ==
    ( /\ Identity /\ FirstThree /\ pthr = 2 /\ nsig = <<2, 1>>
      /\ obs[px][1] = <<1, 10>> /\ obs[px][2] = <<5, 1>> /\ obs[px][3] = <<3, 10>>
      /\ px_pc = "returned" ) =>
        /\ iters = 2
        /\ dropped = <<2>>
        /\ ret = <<RDiv(SumTO(px, <<1, 3>>), SumTT(<<1, 3>>)), <<1, 10>>, <<2, 1>>>>
        /\ ret[1] = <<1, 10>>

\* C10: a pass whose largest weighted residual is greater than nsig deletes
\* exactly one index, one that achieves the largest, and the loop goes on;
\* otherwise the pass returns with count the size of the active set.  Time
\* spans 1, 2, 3 with observations 0.1, 5.0, 0.3, pthr 2, nsig 2.0: one
\* rejection, of the second observation, then count 2 and the rate of the
\* two left.
C10_RejectWorstOrAccept ==
    /\ []C10_Scenario
    /\ [][C10_Step]_vars

C10_Witness ==
    /\ Identity /\ FirstThree /\ pthr = 2 /\ nsig = <<2, 1>>
    /\ obs[px][2] = <<5, 1>>
    /\ px_pc = "returned"
    /\ dropped = <<2>>
    /\ ret[3] = <<2, 1>>

====
